---------------------------- MODULE Spec2Model ----------------------------
(***************************************************************************)
(* Model of the wordlist generator of python_tool.py: the helpers          *)
(* leetspeak_variants, capitalize_variants, build_base_words and           *)
(* add_common_patterns, the pipeline of generate_wordlist and              *)
(* export_wordlist.                                                        *)
(*                                                                         *)
(* A Python str is a sequence of one-character strings.  A Python set is a *)
(* TLA+ set; turning it into a list (list(s), iteration) orders it by the  *)
(* string hash, which CPython salts per process (hash_seed).               *)
(***************************************************************************)
EXTENDS Integers, Sequences, FiniteSets

VARIABLES
  user_inputs,    \* the dict handed to generate_wordlist
  max_per_base,   \* its size limit
  hash_seed,      \* the process's string-hash salt
  pc,             \* position in cli_main's generate/export flow
  base_words,     \* list returned by build_base_words
  generated,      \* the set `generated`
  with_patterns,  \* the set `with_patterns`
  final_list,     \* the list returned by generate_wordlist
  file,           \* the output file: whether it was opened, and its content
  stdout,         \* what export_wordlist printed
  word,           \* argument of a direct helper call
  max_variants,   \* argument of a direct leetspeak_variants call
  words,          \* argument of a direct add_common_patterns call
  result          \* value returned by a direct helper call

vars == <<user_inputs, max_per_base, hash_seed, pc, base_words, generated,
          with_patterns, final_list, file, stdout, word, max_variants, words, result>>

-----------------------------------------------------------------------------
(* Bounds of the model *)

MaxNameLen == 2
MaxNumLen == 4
MaxInputLen == 5
MaxLimit == 1
MaxSeed == 1
MaxWordLen == 3
MaxVariantsArg == 4
MaxWords == 2

-----------------------------------------------------------------------------
(* Characters and the str methods used by the program *)

Lowers == <<"a","b","c","d","e","f","g","h","i","j","k","l","m",
            "n","o","p","q","r","s","t","u","v","w","x","y","z">>
Uppers == <<"A","B","C","D","E","F","G","H","I","J","K","L","M",
            "N","O","P","Q","R","S","T","U","V","W","X","Y","Z">>
Others == <<"0","1","2","3","4","5","6","7","8","9",
            "@","!","$","#","'"," ","\n">>

CharTable == Lowers \o Uppers \o Others

Whitespace == {" ", "\n"}

Ord == [c \in {CharTable[i] : i \in 1..Len(CharTable)} |->
          CHOOSE i \in 1..Len(CharTable) : CharTable[i] = c]

IsLower(c) == Ord[c] <= 26
IsUpper(c) == Ord[c] > 26 /\ Ord[c] <= 52
IsCased(c) == Ord[c] <= 52

LowerCh(c) == IF IsUpper(c) THEN Lowers[Ord[c] - 26] ELSE c
UpperCh(c) == IF IsLower(c) THEN Uppers[Ord[c]] ELSE c

\* str.lower()
Lower(s) == [i \in 1..Len(s) |-> LowerCh(s[i])]

\* str.upper()
Upper(s) == [i \in 1..Len(s) |-> UpperCh(s[i])]

\* str.capitalize(): first character upper-cased, the rest lower-cased
Capitalize(s) == [i \in 1..Len(s) |-> IF i = 1 THEN UpperCh(s[i]) ELSE LowerCh(s[i])]

\* a title() that starts a word only at the beginning and after a space
Title_AfterSpace(s) ==
  [i \in 1..Len(s) |-> IF i > 1 /\ s[i-1] # " " THEN LowerCh(s[i]) ELSE UpperCh(s[i])]

\* str.title(): a cased character is upper-cased when the character before it
\* is not cased (or it is the first), lower-cased otherwise
Title(s) ==
  [i \in 1..Len(s) |->
     IF i > 1 /\ IsCased(s[i-1]) THEN LowerCh(s[i]) ELSE UpperCh(s[i])]

\* str.split(): the maximal runs of non-whitespace characters, in order
RECURSIVE SplitFrom(_, _, _)
SplitFrom(s, i, cur) ==
  IF i > Len(s) THEN (IF cur = <<>> THEN <<>> ELSE <<cur>>)
  ELSE IF s[i] \in Whitespace
       THEN (IF cur = <<>> THEN <<>> ELSE <<cur>>) \o SplitFrom(s, i + 1, <<>>)
       ELSE SplitFrom(s, i + 1, Append(cur, s[i]))

Split(s) == SplitFrom(s, 1, <<>>)

\* str.strip()
RECURSIVE LStrip(_)
LStrip(s) == IF s # <<>> /\ Head(s) \in Whitespace THEN LStrip(Tail(s)) ELSE s

RECURSIVE RStrip(_)
RStrip(s) ==
  IF s # <<>> /\ s[Len(s)] \in Whitespace THEN RStrip(SubSeq(s, 1, Len(s) - 1)) ELSE s

Strip(s) == RStrip(LStrip(s))

\* s[-n:]
LastN(s, n) == IF Len(s) <= n THEN s ELSE SubSeq(s, Len(s) - n + 1, Len(s))

\* lst[:n] for any integer n
Prefix(lst, n) ==
  IF n >= 0 THEN SubSeq(lst, 1, IF n < Len(lst) THEN n ELSE Len(lst))
  ELSE SubSeq(lst, 1, IF Len(lst) + n > 0 THEN Len(lst) + n ELSE 0)

Range(f) == {f[i] : i \in DOMAIN f}

\* list(dict.fromkeys(lst)): first occurrences, in order (the list is halved
\* so that the evaluation stays shallow)
RECURSIVE FromKeys(_)
FromKeys(lst) ==
  IF Len(lst) <= 1 THEN lst
  ELSE LET h == Len(lst) \div 2
           left == FromKeys(SubSeq(lst, 1, h))
           seen == Range(left)
           NotSeen(x) == x \notin seen
       IN  left \o SelectSeq(FromKeys(SubSeq(lst, h + 1, Len(lst))), NotSeen)

\* "".join(tup)
RECURSIVE Join(_)
Join(tup) ==
  IF tup = <<>> THEN <<>>
  ELSE IF Len(tup) = 1 THEN tup[1]
  ELSE LET h == Len(tup) \div 2
       IN  Join(SubSeq(tup, 1, h)) \o Join(SubSeq(tup, h + 1, Len(tup)))

-----------------------------------------------------------------------------
(* Iteration order of a set of str *)

RECURSIVE HashFrom(_, _, _)
HashFrom(s, i, h) ==
  IF i > Len(s) THEN h ELSE HashFrom(s, i + 1, (h * 31 + Ord[s[i]]) % 1009)

\* hash(s) under the process's salt
Hash(s, seed) == HashFrom(s, 1, seed + 1)

RECURSIVE StrLess(_, _)
StrLess(s, t) ==
  IF t = <<>> THEN FALSE
  ELSE IF s = <<>> THEN TRUE
  ELSE IF Head(s) # Head(t) THEN Ord[Head(s)] < Ord[Head(t)]
  ELSE StrLess(Tail(s), Tail(t))

RECURSIVE Sorted(_)
Sorted(S) ==
  IF S = {} THEN <<>>
  ELSE LET m == CHOOSE x \in S : \A y \in S \ {x} : StrLess(x, y)
       IN  <<m>> \o Sorted(S \ {m})

\* the keyed strings K with hashes in lo..hi, by hash, equal hashes by StrLess
RECURSIVE ByHash(_, _, _)
ByHash(K, lo, hi) ==
  IF K = {} THEN <<>>
  ELSE IF lo = hi \/ Cardinality(K) = 1 THEN Sorted({k[2] : k \in K})
  ELSE LET mid == (lo + hi) \div 2
       IN  ByHash({k \in K : k[1] <= mid}, lo, mid) \o
           ByHash({k \in K : k[1] > mid}, mid + 1, hi)

\* list(S) / iteration over the set S: slot order, the slot given by the hash
ListOf(S, seed) == ByHash({<<Hash(s, seed), s>> : s \in S}, 0, 1008)

-----------------------------------------------------------------------------
(* Wordlist generation helpers *)

Str1(c) == <<c>>

\* LEET_MAP.get(ch, [ch])
LEET_MAP(ch) ==
  CASE ch = "a" -> <<Str1("a"), Str1("@"), Str1("4")>>
    [] ch = "b" -> <<Str1("b"), Str1("8")>>
    [] ch = "e" -> <<Str1("e"), Str1("3")>>
    [] ch = "i" -> <<Str1("i"), Str1("1"), Str1("!")>>
    [] ch = "l" -> <<Str1("l"), Str1("1"), Str1("7")>>
    [] ch = "o" -> <<Str1("o"), Str1("0")>>
    [] ch = "s" -> <<Str1("s"), Str1("5"), Str1("$")>>
    [] ch = "t" -> <<Str1("t"), Str1("7")>>
    [] ch = "g" -> <<Str1("g"), Str1("9")>>
    [] OTHER -> <<Str1(ch)>>

COMMON_APPEND ==
  << <<>>, <<"1","2","3">>, <<"1","2","3","4">>, <<"2","0","2","3">>,
     <<"2","0","2","4">>, <<"!">>, <<"@">>, <<"#">>, <<"0","0","7">> >>

\* itertools.product(*pools): the last pool varies fastest
RECURSIVE Product(_)
Product(pools) ==
  IF pools = <<>> THEN << <<>> >>
  ELSE LET h == Head(pools)
           rest == Product(Tail(pools))
           n == Len(rest)
       IN  [k \in 1..(Len(h) * n) |->
              <<h[((k - 1) \div n) + 1]>> \o rest[((k - 1) % n) + 1]]

\* the loop "for i, tup in enumerate(combos)": i tuples are already consumed
RECURSIVE LeetLoop(_, _, _, _)
LeetLoop(combos, i, results, maxv) ==
  IF i >= Len(combos) THEN results
  ELSE LET r == Append(results, Join(combos[i + 1]))
       IN  IF i + 1 >= maxv THEN r ELSE LeetLoop(combos, i + 1, r, maxv)

leetspeak_variants(w, maxv) ==
  IF w = <<>> THEN <<>>
  ELSE LET lw == Lower(w)
           pools == [i \in 1..Len(lw) |-> LEET_MAP(lw[i])]
       IN  FromKeys(LeetLoop(Product(pools), 0, <<>>, maxv))

capitalize_variants(w) ==
  FromKeys(<<Lower(w), Title(w), Upper(w), Capitalize(w)>>)

\* the value added whole, without split()
PartsOf_Unsplit(v) == IF v = <<>> THEN {} ELSE {v}

\* the parts one value of the dict adds to `words`
PartsOf(v) ==
  IF v = <<>> THEN {}
  ELSE {Strip(part) : part \in {p \in Range(Split(v)) : Strip(p) # <<>>}}

build_base_words(ui, seed) ==
  ListOf(UNION {PartsOf(ui[k]) : k \in DOMAIN ui}, seed)

\* patterns appended only, never prepended
add_common_patterns_AppendOnly(ws, seed) ==
  ListOf({ws[i] \o COMMON_APPEND[j] : i \in DOMAIN ws, j \in DOMAIN COMMON_APPEND}, seed)

add_common_patterns(ws, seed) ==
  ListOf(UNION {{ws[i] \o COMMON_APPEND[j], COMMON_APPEND[j] \o ws[i]} :
                  i \in DOMAIN ws, j \in DOMAIN COMMON_APPEND}, seed)

-----------------------------------------------------------------------------
(* The stages of generate_wordlist *)

DefaultVariants == 200

\* the leet variants without their own capitalization variants
VariantsOf_NoLeetCaps(base) ==
  Range(capitalize_variants(base)) \cup
  Range(leetspeak_variants(base, DefaultVariants))

\* 1) capitalization and leet variants of every base word
VariantsOf(base) ==
  Range(capitalize_variants(base)) \cup
  UNION {{l} \cup Range(capitalize_variants(l)) :
           l \in Range(leetspeak_variants(base, DefaultVariants))}

Stage1(bw) == UNION {VariantsOf(bw[i]) : i \in DOMAIN bw}

\* combinations instead of permutations, one concatenation per pair
Stage2_OneOrder(bw, gen) ==
  gen \cup {bw[p[1]] \o bw[p[2]] : p \in {q \in (DOMAIN bw) \X (DOMAIN bw) : q[1] < q[2]}}

\* 2) itertools.permutations(base_words, 2): ordered pairs of distinct positions
Stage2(bw, gen) ==
  gen \cup UNION {UNION {{bw[i] \o bw[j], bw[j] \o bw[i]} : j \in DOMAIN bw \ {i}} :
                   i \in DOMAIN bw}

\* 3) set(add_common_patterns(list(generated)))
Stage3(gen, seed) == Range(add_common_patterns(ListOf(gen, seed), seed))

NumericKeys == <<"dob", "birthyear", "year", "numbers", "phone">>

\* the slices taken only of values longer than four characters
SlicesOf_Over4(ui, key) ==
  IF key \in DOMAIN ui /\ ui[key] # <<>>
  THEN LET val == ui[key]
       IN  {val} \cup (IF Len(val) > 4 THEN {LastN(val, 2), LastN(val, 4)} ELSE {})
  ELSE {}

\* what one key adds in 4)
SlicesOf(ui, key) ==
  IF key \in DOMAIN ui /\ ui[key] # <<>>
  THEN LET val == ui[key]
       IN  {val} \cup (IF Len(val) >= 4 THEN {LastN(val, 2), LastN(val, 4)} ELSE {})
  ELSE {}

\* 4) numeric-only patterns from the inputs
Stage4(ui, wp) == wp \cup UNION {SlicesOf(ui, NumericKeys[i]) : i \in DOMAIN NumericKeys}

\* a cut that keeps one entry too many
Finalize_OneMore(wp, maxn, seed) ==
  LET full == ListOf(wp, seed)
      cut == IF Len(full) > maxn THEN Prefix(full, maxn + 1) ELSE full
  IN  FromKeys(cut)

\* limit the size, ensure uniqueness
Finalize(wp, maxn, seed) ==
  LET full == ListOf(wp, seed)
      cut == IF Len(full) > maxn THEN Prefix(full, maxn) ELSE full
  IN  FromKeys(cut)

generate_wordlist(ui, maxn, seed) ==
  LET bw == build_base_words(ui, seed)
  IN  Finalize(Stage4(ui, Stage3(Stage2(bw, Stage1(bw)), seed)), maxn, seed)

\* the text written by the loop of f.write(w + "\n")
Written(wordlist) == Join([i \in DOMAIN wordlist |-> wordlist[i] \o <<"\n">>])

-----------------------------------------------------------------------------
(* Inputs *)

Strings(chars, n) == UNION {[1..k -> chars] : k \in 0..n}

\* the keys of the dict built by cli_main and on_generate
CliKeys == {"name", "dob", "pet", "fav", "numbers", "phone"}

NameChars == {"a", "M", " "}
NumChars == {"9", "\n"}
WordChars == {"a", "B", "x", "4", "'", " "}
PatternChars == {"a", "1", "!"}

\* a dict with the name n and the value d under the key k, the other fields empty
InputsFor(n, k, d) ==
  [x \in CliKeys \cup {k} |-> IF x = k THEN d ELSE IF x = "name" THEN n ELSE <<>>]

Example == InputsFor(<<"M","a","x">>, "dob", <<"1","9","9","9">>)

\* the names with the dobs, MaxInputLen characters in all at most; the other
\* numeric keys with a short name
Inputs ==
  {InputsFor(nd[1], "dob", nd[2]) :
     nd \in {x \in Strings(NameChars, MaxNameLen) \X Strings(NumChars, MaxNumLen) :
               Len(x[1]) + Len(x[2]) <= MaxInputLen}}
  \cup {InputsFor(n, k, d) : n \in {<<>>, <<"a">>},
                             k \in Range(NumericKeys),
                             d \in Strings(NumChars, MaxNumLen)}
  \cup {Example}

CliDefaultMax == 1000

Limits == (0..MaxLimit) \cup {CliDefaultMax}

HashSeeds == 0..MaxSeed

NoFile == [opened |-> FALSE, content |-> <<>>]

-----------------------------------------------------------------------------
(* cli_main: generate_wordlist stage by stage, then export_wordlist *)

Init ==
  /\ user_inputs \in Inputs
  /\ max_per_base \in Limits
  /\ hash_seed \in HashSeeds
  /\ pc = "start"
  /\ base_words = <<>>
  /\ generated = {}
  /\ with_patterns = {}
  /\ final_list = <<>>
  /\ file = NoFile
  /\ stdout = <<>>
  /\ word = <<>>
  /\ max_variants = DefaultVariants
  /\ words = <<>>
  /\ result = <<>>

BuildBaseWords ==
  /\ pc = "start"
  /\ base_words' = build_base_words(user_inputs, hash_seed)
  /\ pc' = "variants"
  /\ UNCHANGED <<user_inputs, max_per_base, hash_seed, generated, with_patterns,
                 final_list, file, stdout, word, max_variants, words, result>>

ExpandVariants ==
  /\ pc = "variants"
  /\ generated' = Stage1(base_words)
  /\ pc' = "combine"
  /\ UNCHANGED <<user_inputs, max_per_base, hash_seed, base_words, with_patterns,
                 final_list, file, stdout, word, max_variants, words, result>>

Combine ==
  /\ pc = "combine"
  /\ generated' = Stage2(base_words, generated)
  /\ pc' = "patterns"
  /\ UNCHANGED <<user_inputs, max_per_base, hash_seed, base_words, with_patterns,
                 final_list, file, stdout, word, max_variants, words, result>>

AddPatterns ==
  /\ pc = "patterns"
  /\ with_patterns' = Stage3(generated, hash_seed)
  /\ pc' = "numeric"
  /\ UNCHANGED <<user_inputs, max_per_base, hash_seed, base_words, generated,
                 final_list, file, stdout, word, max_variants, words, result>>

NumericSlices ==
  /\ pc = "numeric"
  /\ with_patterns' = Stage4(user_inputs, with_patterns)
  /\ pc' = "limit"
  /\ UNCHANGED <<user_inputs, max_per_base, hash_seed, base_words, generated,
                 final_list, file, stdout, word, max_variants, words, result>>

Limit ==
  /\ pc = "limit"
  /\ final_list' = Finalize(with_patterns, max_per_base, hash_seed)
  /\ pc' = "export"
  /\ UNCHANGED <<user_inputs, max_per_base, hash_seed, base_words, generated,
                 with_patterns, file, stdout, word, max_variants, words, result>>

\* export_wordlist(wordlist, filename)
Export ==
  /\ pc = "export"
  /\ IF final_list = <<>>
     THEN /\ stdout' = Append(stdout, [msg |-> "No words to export.", n |-> 0])
          /\ file' = file
     ELSE /\ file' = [opened |-> TRUE, content |-> Written(final_list)]
          /\ stdout' = Append(stdout, [msg |-> "Exported", n |-> Len(final_list)])
  /\ pc' = "done"
  /\ UNCHANGED <<user_inputs, max_per_base, hash_seed, base_words, generated,
                 with_patterns, final_list, word, max_variants, words, result>>

Next ==
  \/ BuildBaseWords
  \/ ExpandVariants
  \/ Combine
  \/ AddPatterns
  \/ NumericSlices
  \/ Limit
  \/ Export

Spec == Init /\ [][Next]_vars

-----------------------------------------------------------------------------
(* Direct calls of the helpers *)

VariantLimits == (0..MaxVariantsArg) \cup {DefaultVariants}

WordLists == UNION {[1..k -> Strings(PatternChars, 2)] : k \in 0..MaxWords}

InitFn ==
  /\ user_inputs = InputsFor(<<>>, "dob", <<>>)
  /\ max_per_base = CliDefaultMax
  /\ pc = "call"
  /\ base_words = <<>>
  /\ generated = {}
  /\ with_patterns = {}
  /\ final_list = <<>>
  /\ file = NoFile
  /\ stdout = <<>>
  /\ result = <<>>
  /\ \/ /\ word \in Strings(WordChars, MaxWordLen)
        /\ max_variants \in VariantLimits
        /\ words = <<>>
        /\ hash_seed = 0
     \/ /\ word = <<>>
        /\ max_variants = DefaultVariants
        /\ words \in WordLists
        /\ hash_seed \in HashSeeds

CallLeet ==
  /\ pc = "call"
  /\ result' = leetspeak_variants(word, max_variants)
  /\ pc' = "leetspeak_variants"
  /\ UNCHANGED <<user_inputs, max_per_base, hash_seed, base_words, generated,
                 with_patterns, final_list, file, stdout, word, max_variants, words>>

CallCapitalize ==
  /\ pc = "call"
  /\ result' = capitalize_variants(word)
  /\ pc' = "capitalize_variants"
  /\ UNCHANGED <<user_inputs, max_per_base, hash_seed, base_words, generated,
                 with_patterns, final_list, file, stdout, word, max_variants, words>>

CallPatterns ==
  /\ pc = "call"
  /\ result' = add_common_patterns(words, hash_seed)
  /\ pc' = "add_common_patterns"
  /\ UNCHANGED <<user_inputs, max_per_base, hash_seed, base_words, generated,
                 with_patterns, final_list, file, stdout, word, max_variants, words>>

NextFn ==
  \/ CallLeet
  \/ CallCapitalize
  \/ CallPatterns

SpecFn == InitFn /\ [][NextFn]_vars

-----------------------------------------------------------------------------
(* Properties of generate_wordlist *)

Returned == pc \in {"export", "done"}

\* the candidate pool is complete from here on
Pooled == pc \in {"limit", "export", "done"}

NoDuplicates(lst) == Cardinality(Range(lst)) = Len(lst)

\* C1: when the inputs yield at least one seed word and max_per_base >= 0, the
\* returned list has at most max_per_base entries and no string twice.
C1_BoundedAndUnique ==
  (Returned /\ base_words # <<>> /\ max_per_base >= 0) =>
     (Len(final_list) <= max_per_base /\ NoDuplicates(final_list))

C1_Witness ==
  /\ pc = "done"
  /\ base_words # <<>>
  /\ max_per_base > 0
  /\ Cardinality(with_patterns) > max_per_base
  /\ Len(final_list) = max_per_base

\* C2: generation is deterministic: a run under any other hash salt returns the
\* same list, in the same order, as this run did for the same inputs and limit.
C2_Deterministic ==
  Returned =>
     \A s \in HashSeeds : generate_wordlist(user_inputs, max_per_base, s) = final_list

\* the inputs yield no seed word: every value is empty or all whitespace
Blank(v) == \A i \in DOMAIN v : v[i] \in Whitespace

NoSeedWord(ui) == \A k \in DOMAIN ui : Blank(ui[k])

NoNumericValue(ui) ==
  \A i \in DOMAIN NumericKeys :
     NumericKeys[i] \in DOMAIN ui => ui[NumericKeys[i]] = <<>>

\* C4 as stated: when the inputs yield no seed word, the returned list is empty.
C4_EmptyWithoutSeeds == (Returned /\ NoSeedWord(user_inputs)) => final_list = <<>>

\* C4, amended: when the inputs yield no seed word and none of dob, birthyear,
\* year, numbers, phone has a non-empty value, the returned list is empty.
C4_EmptyWithoutSeedsAndNumbers ==
  (Returned /\ NoSeedWord(user_inputs) /\ NoNumericValue(user_inputs)) =>
     final_list = <<>>

C4_Witness ==
  /\ pc = "done"
  /\ user_inputs["name"] # <<>>
  /\ NoSeedWord(user_inputs)
  /\ NoNumericValue(user_inputs)
  /\ max_per_base > 0
  /\ final_list = <<>>

\* the affix stage as the specification states it
ClaimPatterns ==
  { <<>>, <<"1","2","3">>, <<"1","2","3","4">>, <<"2","0","2","3">>,
    <<"2","0","2","4">>, <<"!">>, <<"@">>, <<"#">>, <<"0","0","7">> }

ClaimAffixed(S) == UNION {{w \o p, p \o w} : w \in S, p \in ClaimPatterns}

LastTwo(v) == <<v[Len(v) - 1], v[Len(v)]>>
LastFour(v) == <<v[Len(v) - 3], v[Len(v) - 2], v[Len(v) - 1], v[Len(v)]>>

NumericValues(ui) ==
  {ui[k] : k \in {x \in Range(NumericKeys) \cap DOMAIN ui : ui[x] # <<>>}}

C7_Pairs ==
  /\ \A a \in Range(base_words), b \in Range(base_words) :
       a # b =>
         /\ pc \in {"patterns", "numeric", "limit", "export", "done"} => a \o b \in generated
         /\ pc \in {"numeric", "limit", "export", "done"} => a \o b \in with_patterns
         /\ (Returned /\ Cardinality(with_patterns) <= max_per_base) =>
               a \o b \in Range(final_list)
  /\ (pc = "patterns" /\ Len(base_words) < 2) => generated = Stage1(base_words)

C7_Witness ==
  /\ pc = "done"
  /\ Cardinality(with_patterns) <= max_per_base
  /\ \E i \in DOMAIN base_words, j \in DOMAIN base_words :
        /\ i # j
        /\ base_words[i] \o base_words[j] \notin Stage1(base_words)
        /\ base_words[i] \o base_words[j] \in Range(final_list)
        /\ base_words[j] \o base_words[i] \in Range(final_list)

\* the text of the file, read back line by line (every line ends with "\n")
RECURSIVE Lines(_)
Lines(text) ==
  LET ends == {i \in DOMAIN text : text[i] = "\n"}
      inner == ends \ {Len(text)}
  IN  IF text = <<>> THEN <<>>
      ELSE IF inner = {}
           THEN <<SelectSeq(text, LAMBDA c : c # "\n")>>
           ELSE LET Dist(i) == IF 2 * i >= Len(text) THEN 2 * i - Len(text)
                                                       ELSE Len(text) - 2 * i
                    m == CHOOSE i \in inner : \A j \in inner : Dist(i) <= Dist(j)
                IN  Lines(SubSeq(text, 1, m)) \o Lines(SubSeq(text, m + 1, Len(text)))

\* C9: the exported file holds the entries in order, one per line, len(wordlist)
\* lines in all; for an empty wordlist no file is opened and the absence is reported.
C9_OneWordPerLine ==
  pc = "done" =>
     IF final_list = <<>>
     THEN file = NoFile /\ stdout = <<[msg |-> "No words to export.", n |-> 0]>>
     ELSE file.opened /\ Lines(file.content) = final_list

\* C10: for every seed word s the pool holds capitalize_variants(s), every
\* v in leetspeak_variants(s, 200) and capitalize_variants(v); all are returned
\* when the pool has at most max_per_base entries; {name: "Max", dob: "1999"}
\* with max_per_base = 1000 returns "max", "Max", "MAX", "M4x", "1999", "99".
ClaimVariants(s) ==
  Range(capitalize_variants(s)) \cup Range(leetspeak_variants(s, 200)) \cup
  UNION {Range(capitalize_variants(v)) : v \in Range(leetspeak_variants(s, 200))}

ExampleWords ==
  { <<"m","a","x">>, <<"M","a","x">>, <<"M","A","X">>, <<"M","4","x">>,
    <<"1","9","9","9">>, <<"9","9">> }

C10_Variants ==
  /\ \A i \in DOMAIN base_words :
       /\ pc \in {"combine", "patterns", "numeric", "limit", "export", "done"} =>
             ClaimVariants(base_words[i]) \subseteq generated
       /\ pc \in {"numeric", "limit", "export", "done"} =>
             ClaimVariants(base_words[i]) \subseteq with_patterns
       /\ (Returned /\ Cardinality(with_patterns) <= max_per_base) =>
             ClaimVariants(base_words[i]) \subseteq Range(final_list)
  /\ (Returned /\ user_inputs = Example /\ max_per_base = 1000) =>
        ExampleWords \subseteq Range(final_list)

C10_Witness ==
  /\ pc = "done"
  /\ user_inputs = Example
  /\ max_per_base = 1000
  /\ <<"M","4","x">> \in Range(final_list)
  /\ Cardinality(with_patterns) <= max_per_base

-----------------------------------------------------------------------------
(* Properties of the helpers *)

Min(a, b) == IF a < b THEN a ELSE b

\* C3: leetspeak_variants(word, max_variants) is the first max_variants tuples
\* of the product of the substitution lists of the lowercased word, joined and
\* deduplicated; never more than max_variants strings; [] for the empty word.
C3_FirstProducts ==
  pc = "leetspeak_variants" =>
     LET lw == Lower(word)
         prod == IF word = <<>> THEN <<>>
                 ELSE Product([i \in 1..Len(lw) |-> LEET_MAP(lw[i])])
         n == Min(max_variants, Len(prod))
     IN  /\ result = FromKeys([i \in 1..n |-> Join(prod[i])])
         /\ Len(result) <= max_variants

\* title casing as the specification states it: the first letter of each
\* space-separated token capitalized, the rest of the token lower-cased
Letters == Range(Lowers) \cup Range(Uppers)

SameToken(s, j, i) == \A k \in j..i : s[k] # " "

FirstLetterOfToken(s, i) ==
  s[i] \in Letters /\ \A j \in 1..(i - 1) : SameToken(s, j, i) => s[j] \notin Letters

TokenTitle(s) ==
  [i \in 1..Len(s) |-> IF FirstLetterOfToken(s, i) THEN UpperCh(s[i]) ELSE LowerCh(s[i])]

\* title casing by runs of letters: a letter that starts the word or follows a
\* non-letter is capitalized, every other letter is lower-cased

LetterRunTitle(s) ==
  [i \in 1..Len(s) |->
     IF s[i] \notin Letters THEN s[i]
     ELSE IF i = 1 \/ s[i-1] \notin Letters THEN UpperCh(s[i]) ELSE LowerCh(s[i])]

\* C5 as stated: capitalize_variants(word) is [lower, title by space-separated
\* tokens, upper, capitalize], deduplicated in first-seen order.
C5_TokenTitle ==
  pc = "capitalize_variants" =>
     result = FromKeys(<<Lower(word), TokenTitle(word), Upper(word), Capitalize(word)>>)

\* C5, amended: capitalize_variants(word) is [lower, title by runs of letters,
\* upper, capitalize], deduplicated in first-seen order.
C5_LetterRunTitle ==
  pc = "capitalize_variants" =>
     result = FromKeys(<<Lower(word), LetterRunTitle(word), Upper(word), Capitalize(word)>>)

C5_Witness ==
  /\ pc = "capitalize_variants"
  /\ Len(result) = 3
  /\ LetterRunTitle(word) # TokenTitle(word)
  /\ \E i \in DOMAIN word : word[i] \in {"4", "'"}

\* C8: add_common_patterns(words) holds exactly the strings w+p and p+w for w in
\* words and p among the nine patterns, none twice; so every input word, and at
\* most 17 entries per distinct input word.
C8_Patterns ==
  pc = "add_common_patterns" =>
     /\ Range(result) = ClaimAffixed(Range(words))
     /\ NoDuplicates(result)
     /\ Range(words) \subseteq Range(result)
     /\ Len(result) <= 17 * Cardinality(Range(words))

C8_Witness ==
  /\ pc = "add_common_patterns"
  /\ Len(words) = 2
  /\ words[1] # words[2]
  /\ Len(result) = 34

=============================================================================
